---- MODULE Spec2Model ----
(***************************************************************************)
(* The IoTDevices page component (src/IoTDevices.js): its React state, the *)
(* two effects that drive the catalog loop and the data loop, the fetch    *)
(* completion callbacks, and the pure helpers that normalise the device    *)
(* list and derive the attack verdict.                                     *)
(*                                                                         *)
(* A handler and the effects React re-runs because of the state it sets    *)
(* form one action: the effect clean-ups and bodies run on the commit that *)
(* follows the state change, before any other callback.                    *)
(***************************************************************************)
EXTENDS Integers, Sequences, FiniteSets, Bags

(***************************************************************************)
(* Bounds of the model.                                                    *)
(***************************************************************************)
\* data fetch cycles started in one run
MaxCycles == 2
\* catalog requests in flight at once
MaxPendingDevices == 2
\* devices in one /api/devices response of the component run
MaxCatalog == 2
\* samples in one telemetry response, alerts in one alert response
MaxSamples == 2
MaxAlerts == 1
\* the clock is observed at 0 and, for each of MaxLongSteps attack windows, at
\* the end of the window and at the MaxShortSteps milliseconds before it
MaxLongSteps == 1
MaxShortSteps == 1
\* devices and words per name of the lists given to the normaliser alone
MaxRawDevices == 1
MaxNameWords == 2
\* largest value of a heatmap cell
MaxHeat == 1
\* the colour mapping is applied to the values 0, 1/CellValueScale,
\* 2/CellValueScale, ... up to MaxCellValue
CellValueScale == 100
DrawSteps == 7
MaxDrawGap == 8
MaxCellValue == 100

(***************************************************************************)
(* JavaScript values.                                                      *)
(***************************************************************************)
\* useState(null): the initial selection; '' is the blank <option>
Null == "<null>"
Blank == ""
\* !x for the strings and null the selection ranges over
Falsy(x) == x \in {Null, Blank}

\* the devices effect polls every 30000 ms; the window of the verdict is 60 s
DevicePollMs == 30000
AttackWindowSeconds == 60
MsPerSecond == 1000
\* the cadences the refresh <select> offers, and the initial one
Cadences == {1, 5, 10, 30}
InitialRefreshInterval == 5
\* the heatmap is fetched every 5000 ms; the generated grid is 192 by 108
HeatmapPollMs == 5000
DummyWidth == 192
DummyHeight == 108

(***************************************************************************)
(* Device list normalisation (fetchDevices, the success path).             *)
(* A display name is the sequence of its words; name.includes(w) looks for *)
(* the word w and `${name} Sensor` appends the word Sensor.  The status    *)
(* field of a device is copied through untouched and is left out.          *)
(***************************************************************************)
includes(name, word) == \E i \in DOMAIN name : name[i] = word

\* the suffix appended without looking for it first
sensorName_always(name) == Append(name, "Sensor")

\* device.name.includes('Sensor') ? device.name : `${device.name} Sensor`
sensorName(name) == IF includes(name, "Sensor") THEN name ELSE Append(name, "Sensor")

\* the sensor-qualified kinds not let through
isIoTDevice_legacyOnly(device) ==
    \/ device.device_type = "mouse"
    \/ device.device_type = "keyboard"
    \/ device.device_type = "headset"

\* the predicate of data.devices.filter(...)
isIoTDevice(device) ==
    \/ device.device_type = "mouse"
    \/ device.device_type = "keyboard"
    \/ device.device_type = "headset"
    \/ device.device_type = "mouse_sensor"
    \/ device.device_type = "keyboard_sensor"
    \/ device.device_type = "headset_sensor"

iotDevices(rawDevices) == SelectSeq(rawDevices, isIoTDevice)

\* the callback of iotDevices.map(...)
renameDevice(device) ==
    IF device.device_type = "mouse" \/ includes(device.name, "Mouse")
    THEN [device EXCEPT !.name = sensorName(@),
                        !.device_type = IF @ = "mouse" THEN "mouse_sensor" ELSE @]
    ELSE IF device.device_type = "keyboard" \/ includes(device.name, "Keyboard")
    THEN [device EXCEPT !.name = sensorName(@),
                        !.device_type = IF @ = "keyboard" THEN "keyboard_sensor" ELSE @]
    ELSE IF device.device_type = "headset" \/ includes(device.name, "Headset")
    THEN [device EXCEPT !.name = sensorName(@),
                        !.device_type = IF @ = "headset" THEN "headset_sensor" ELSE @]
    ELSE device

renamedDevices(list) == [i \in 1..Len(list) |-> renameDevice(list[i])]

fallbackDevices ==
    << [client_id |-> "mouse-001", name |-> <<"Gaming", "Mouse", "Sensor">>,
        device_type |-> "mouse_sensor"],
       [client_id |-> "keyboard-001", name |-> <<"Gaming", "Keyboard", "Sensor">>,
        device_type |-> "keyboard_sensor"] >>

ErrorMessage == "Failed to load devices. Please try again."

(***************************************************************************)
(* Telemetry samples, alerts and the verdict.                              *)
(* An optional JavaScript value is a sequence of length 0 (undefined,      *)
(* null, NaN) or 1.                                                        *)
(***************************************************************************)
Undefined == <<>>
Some(v) == <<v>>

\* a substitute sample that reports an attack
fallbackSample_underAttack(deviceId) ==
    [device_id |-> deviceId,
     metrics |-> Some("fallback-metrics"),
     status |-> Some([under_attack |-> TRUE, attack_duration |-> Some(0)])]

\* the sample setDeviceData receives when getIoTDeviceData fails
fallbackSample(deviceId) ==
    [device_id |-> deviceId,
     metrics |-> Some("fallback-metrics"),
     status |-> Some([under_attack |-> FALSE, attack_duration |-> Some(0)])]

\* new Date().toISOString(): the clock, to the millisecond
toISOString(ms) == Some(ms)
\* new Date(string): the milliseconds of a well-formed string, NaN otherwise
DateOf(timestamp) == IF Len(timestamp) = 1 THEN timestamp ELSE Undefined

\* a substitute alert stamped with the epoch instead of the clock
fallbackAlert_epoch(ms) ==
    [timestamp |-> toISOString(0), event_type |-> "attack_detected",
     severity |-> "critical"]

\* the alert setSecurityAlerts receives when getDeviceSecurityAlerts fails
fallbackAlert(ms) ==
    [timestamp |-> toISOString(ms), event_type |-> "attack_detected",
     severity |-> "critical"]

\* result.data || []  and  result.alerts || []
dataOf(result) == IF result.data = Undefined THEN <<>> ELSE result.data[1]
alertsOf(result) == IF result.alerts = Undefined THEN <<>> ELSE result.alerts[1]

\* the first element of the buffer taken for the most recent
getMostRecentData_first(samples) ==
    IF Len(samples) = 0 THEN Undefined ELSE Some(samples[1])

\* deviceData[deviceData.length - 1], null for an empty buffer
getMostRecentData(samples) ==
    IF Len(samples) = 0 THEN Undefined ELSE Some(samples[Len(samples)])

getLatestMetrics(samples) ==
    LET recent == getMostRecentData(samples)
    IN  IF recent = Undefined \/ recent[1].metrics = Undefined
        THEN Undefined
        ELSE recent[1].metrics

\* an attack reported where there is no sample or no status
getDeviceStatus_attackedByDefault(samples) ==
    LET recent == getMostRecentData(samples)
    IN  IF recent = Undefined \/ recent[1].status = Undefined
        THEN [under_attack |-> TRUE, attack_duration |-> Undefined]
        ELSE recent[1].status[1]

getDeviceStatus(samples) ==
    LET recent == getMostRecentData(samples)
    IN  IF recent = Undefined \/ recent[1].status = Undefined
        THEN [under_attack |-> FALSE, attack_duration |-> Undefined]
        ELSE recent[1].status[1]

\* timeDiff = (now - alertTime) / 1000;  timeDiff < 60
\* (a quotient by 1000 is below 60 exactly when the dividend is below 60 * 1000;
\*  a comparison with NaN is false)
recentEnough_inclusive(alertTime, clock) ==
    /\ alertTime # Undefined
    /\ clock - alertTime[1] <= AttackWindowSeconds * MsPerSecond

recentEnough(alertTime, clock) ==
    /\ alertTime # Undefined
    /\ clock - alertTime[1] < AttackWindowSeconds * MsPerSecond

hasRecentCriticalAlert(alerts, clock) ==
    \E i \in DOMAIN alerts :
        alerts[i].severity = "critical" /\ recentEnough(DateOf(alerts[i].timestamp), clock)

\* the sample's own report alone, the alerts not consulted
isAttacked_statusOnly(samples, alerts, clock) ==
    getDeviceStatus(samples).under_attack

\* (status && status.under_attack) || hasRecentCriticalAlert
isAttacked(samples, alerts, clock) ==
    getDeviceStatus(samples).under_attack \/ hasRecentCriticalAlert(alerts, clock)

\* the duration of the oldest sample of the buffer
attackDuration_oldest(samples) ==
    IF Len(samples) = 0 \/ samples[1].status = Undefined
       \/ samples[1].status[1].attack_duration = Undefined
    THEN 0
    ELSE samples[1].status[1].attack_duration[1]

\* status.attack_duration || 0
attackDuration(samples) ==
    LET d == getDeviceStatus(samples).attack_duration
    IN  IF d = Undefined THEN 0 ELSE d[1]

\* what renderDeviceStatus puts on the page: the verdict and, inside
\* {isAttacked && (...)}, the attack duration
renderDeviceStatus(samples, alerts, clock) ==
    [isAttacked |-> isAttacked(samples, alerts, clock),
     attack_duration |-> IF isAttacked(samples, alerts, clock)
                         THEN Some(attackDuration(samples))
                         ELSE Undefined]

\* the four network statistics: getDeviceStatus().under_attack ? ... : ...
networkStatistics(samples) ==
    IF getDeviceStatus(samples).under_attack
    THEN [packetLoss |-> "4.2%", latency |-> "12ms",
          signalStrength |-> "-65dBm", powerConsumption |-> "120mW"]
    ELSE [packetLoss |-> "0.01%", latency |-> "2ms",
          signalStrength |-> "-42dBm", powerConsumption |-> "85mW"]

\* what renderDeviceMetrics puts on the page: 'No metrics available' without
\* metrics, otherwise the metrics and the network statistics
renderDeviceMetrics(samples) ==
    IF getLatestMetrics(samples) = Undefined
    THEN Undefined
    ELSE Some([metrics |-> getLatestMetrics(samples)[1],
               statistics |-> networkStatistics(samples)])

\* {renderDeviceStatus()} {renderDeviceMetrics()}: the card of the device
renderDevice(samples, alerts, clock) ==
    [isAttacked |-> renderDeviceStatus(samples, alerts, clock).isAttacked,
     attack_duration |-> renderDeviceStatus(samples, alerts, clock).attack_duration,
     metrics |-> renderDeviceMetrics(samples)]

(***************************************************************************)
(* Heatmaps (DeviceHeatmap).  A grid is its row and column counts and the  *)
(* value of one observed cell.                                             *)
(***************************************************************************)
Grid(height, width, value) == [height |-> height, width |-> width, cell |-> value]

\* what generateDummyHeatmap may build: every iteration adds at least 1 to a
\* movement cell and, in some iterations, to the click cell at the same place
generateDummyHeatmap ==
    { [position_heatmap |-> Grid(DummyHeight, DummyWidth, v[1]),
       click_heatmap |-> Grid(DummyHeight, DummyWidth, v[2]),
       resolution |-> [width |-> DummyWidth, height |-> DummyHeight]] :
        v \in { w \in (0..MaxHeat) \X (0..MaxHeat) : w[2] > 0 => w[1] > 0 } }

\* the resolutions a server may keep its grids at
ServerResolutions ==
    { [width |-> DummyWidth, height |-> DummyHeight], [width |-> 96, height |-> 54] }

\* the bodies /api/metrics/iot_heatmap/<id> may answer with
ServerHeatmaps ==
    { [position_heatmap |-> Grid(res.height, res.width, p),
       click_heatmap |-> Grid(res.height, res.width, 0),
       resolution |-> res] :
        res \in ServerResolutions, p \in 0..MaxHeat }

(***************************************************************************)
(* The index arithmetic of generateDummyHeatmap.  Math.random() returns a  *)
(* double in [0, 1): a draw is part / DrawSteps, or one of the doubles     *)
(* just below 1, 1 - gap * 2^-53.  Scales and offsets are in tenths.       *)
(***************************************************************************)
Draws ==
    { [part |-> j, gap |-> 0] : j \in 0..(DrawSteps - 1) } \cup
    { [part |-> DrawSteps, gap |-> k] : k \in 1..MaxDrawGap }

\* the nearest integer to num / den, a tie going to the neighbour whose
\* place on the doubles' grid is even (anchorOdd: quotient 0 sits on an odd place)
roundToEven(num, den, anchorOdd) ==
    LET f == num \div den
        rem == num - f * den
    IN  IF 2 * rem < den THEN f
        ELSE IF 2 * rem > den THEN f + 1
        ELSE IF (f % 2 = 0) # anchorOdd THEN f ELSE f + 1

\* Math.floor(r * 108 * 0.2 + 108 * 0.8) for r = 1 - gap * 2^-53, in IEEE
\* double arithmetic, counted in units of 2^-53 around 108:
\*   r * 108 is rounded to the doubles below 108, 128 units apart;
\*   times 0.2 (the double 0.2, 0.1 unit above 0.2) the exact product lies
\*   30 - 0.2 * deficit units above a double near 21.6, doubles there being
\*   32 units apart;
\*   108 * 0.8 is the double 51.2 units above 86.4, so the exact sum is
\*   108 + 32 * (n + 1) units, rounded to doubles 128 units apart.
floorNearTop(gap) ==
    LET deficit == 128 * roundToEven(DummyHeight * gap, 128, FALSE)
        n == roundToEven(300 - 2 * deficit, 320, TRUE)
        q == roundToEven(n + 1, 4, FALSE)
    IN  IF q >= 0 THEN DummyHeight ELSE DummyHeight - 1

\* Math.floor(Math.random() * size * scale + size * offset)
\* A draw of part / DrawSteps is computed exactly: the sums it gives are not
\* whole numbers, and rounding moves them by less than 2^-40.  For a draw just
\* below 1 the sum is just below size * (scale + offset): unless that is a
\* whole number, its floor is the floor of the sum.
index(draw, size, scale, offset) ==
    IF draw.gap = 0
    THEN (draw.part * size * scale + DrawSteps * size * offset) \div (10 * DrawSteps)
    ELSE IF (size * (scale + offset)) % 10 # 0
    THEN (size * (scale + offset)) \div 10
    ELSE floorNearTop(draw.gap)

\* the three loops: centre, top-left, bottom centre; clicks with
\* Math.random() < 0.3, 0.4, 0.5
Clusters ==
    { [name |-> "centre", xScale |-> 6, xOffset |-> 2, yScale |-> 6, yOffset |-> 2,
       clickBelow |-> 3],
      [name |-> "top-left", xScale |-> 2, xOffset |-> 0, yScale |-> 2, yOffset |-> 0,
       clickBelow |-> 4],
      [name |-> "bottom", xScale |-> 6, xOffset |-> 2, yScale |-> 2, yOffset |-> 8,
       clickBelow |-> 5] }

\* Math.random() < clickBelow / 10
drawBelow(draw, clickBelow) == draw.gap = 0 /\ 10 * draw.part < clickBelow * DrawSteps

\* one iteration of a loop: positionData[y][x] += ...; on a condition
\* clickData[y][x] += ...; positionData[y] is undefined for a row outside
\* the grid and the iteration throws a TypeError
iteration(cluster, rx, ry, rc) ==
    LET x == index(rx, DummyWidth, cluster.xScale, cluster.xOffset)
        y == index(ry, DummyHeight, cluster.yScale, cluster.yOffset)
        rowExists == 0 <= y /\ y < DummyHeight
    IN  [x |-> x, y |-> y,
         thrown |-> ~rowExists,
         moved |-> rowExists,
         clicked |-> rowExists /\ drawBelow(rc, cluster.clickBelow)]

\* generateDummyHeatmap() can end in a TypeError
generateDummyHeatmapThrows ==
    \E cluster \in Clusters, rx \in Draws, ry \in Draws, rc \in Draws :
        iteration(cluster, rx, ry, rc).thrown

(***************************************************************************)
(* The colour of a heatmap cell (getColor).  The value and the three       *)
(* channels are counted in units of 1/CellValueScale, alpha in units of    *)
(* 1/(20 * CellValueScale): value / 20 is then the value's own count, and  *)
(* 0.5, 0.6, 0.7 and 0.8 are 10, 12, 14 and 16 times CellValueScale.       *)
(***************************************************************************)
Rgba(r, g, b, a) == [r |-> r, g |-> g, b |-> b, a |-> a]

\* the blue band reaching up to 10 inclusive
getColor_blueUpToTen(value) ==
    LET one == CellValueScale
    IN  IF value = 0 THEN Rgba(0, 0, 0, 0)
        ELSE IF value <= 10 * one THEN Rgba(0, 0, 255 * one, value)
        ELSE IF value < 30 * one
        THEN Rgba(0, 255 * one - (value - 10 * one) * 8, 255 * one, 10 * one)
        ELSE IF value < 60 * one
        THEN Rgba((value - 30 * one) * 8, 255 * one,
                  255 * one - (value - 30 * one) * 8, 12 * one)
        ELSE IF value < 80 * one
        THEN Rgba(255 * one, 255 * one - (value - 60 * one) * 12, 0, 14 * one)
        ELSE Rgba(255 * one, 0, 0, 16 * one)

\* red rising over a falling green in the band from 30 to 60
getColor_greenFalls(value) ==
    LET one == CellValueScale
    IN  IF value = 0 THEN Rgba(0, 0, 0, 0)
        ELSE IF value < 10 * one THEN Rgba(0, 0, 255 * one, value)
        ELSE IF value < 30 * one
        THEN Rgba(0, 255 * one - (value - 10 * one) * 8, 255 * one, 10 * one)
        ELSE IF value < 60 * one
        THEN Rgba((value - 30 * one) * 8, 255 * one - (value - 30 * one) * 8,
                  255 * one, 12 * one)
        ELSE IF value < 80 * one
        THEN Rgba(255 * one, 255 * one - (value - 60 * one) * 12, 0, 14 * one)
        ELSE Rgba(255 * one, 0, 0, 16 * one)

\* green falling by 13 per unit in the band from 60 to 80
getColor_steepOrange(value) ==
    LET one == CellValueScale
    IN  IF value = 0 THEN Rgba(0, 0, 0, 0)
        ELSE IF value < 10 * one THEN Rgba(0, 0, 255 * one, value)
        ELSE IF value < 30 * one
        THEN Rgba(0, 255 * one - (value - 10 * one) * 8, 255 * one, 10 * one)
        ELSE IF value < 60 * one
        THEN Rgba((value - 30 * one) * 8, 255 * one,
                  255 * one - (value - 30 * one) * 8, 12 * one)
        ELSE IF value < 80 * one
        THEN Rgba(255 * one, 255 * one - (value - 60 * one) * 13, 0, 14 * one)
        ELSE Rgba(255 * one, 0, 0, 16 * one)

getColor(value) ==
    LET one == CellValueScale
    IN  IF value = 0 THEN Rgba(0, 0, 0, 0)
        ELSE IF value < 10 * one THEN Rgba(0, 0, 255 * one, value)
        ELSE IF value < 30 * one
        THEN Rgba(0, 255 * one - (value - 10 * one) * 8, 255 * one, 10 * one)
        ELSE IF value < 60 * one
        THEN Rgba((value - 30 * one) * 8, 255 * one,
                  255 * one - (value - 30 * one) * 8, 12 * one)
        ELSE IF value < 80 * one
        THEN Rgba(255 * one, 255 * one - (value - 60 * one) * 12, 0, 14 * one)
        ELSE Rgba(255 * one, 0, 0, 16 * one)

(***************************************************************************)
(* State of the component.                                                 *)
(***************************************************************************)
VARIABLES
    devices,          \* useState([]): the catalog
    selectedDevice,   \* useState(null): id of the selected device
    deviceData,       \* useState([]): the telemetry buffer
    securityAlerts,   \* useState([]): the alert buffer
    loading,          \* useState(true)
    error,            \* useState(null)
    refreshInterval,  \* useState(5): cadence in seconds
    isRefreshing,     \* useState(true)
    deviceInterval,   \* the setInterval handle of the devices effect
    dataInterval,     \* the setInterval handle of the data effect
    pendingDevices,   \* fetchDevices calls awaiting their response: a bag of
                      \* the value !selectedDevice has in each call's closure
    pendingData,      \* fetchDeviceData / fetchSecurityAlerts calls awaiting
                      \* their response
    cycle,            \* number of fetchData calls so far
    now,              \* the clock, in milliseconds
    dataResult,       \* what the last completed fetchDeviceData received
    alertsResult,     \* what the last completed fetchSecurityAlerts received
    heatmapData,      \* DeviceHeatmap: useState(null), an optional value
    heatmapType,      \* DeviceHeatmap: useState('position')
    heatmapInterval,  \* DeviceHeatmap: the setInterval handle of its effect
    pendingHeatmap,   \* DeviceHeatmap: device ids of the fetchHeatmapData calls
                      \* awaiting their response, at most one per device
    heatmapResult,    \* what the last completed fetchHeatmapData received
    data,             \* the drawn input of a helper run alone: a response
                      \* body for the normaliser, a cell value for getColor
    step,             \* steps taken by a run of a helper alone
    shown             \* what a helper run alone rendered last: a verdict, a
                      \* colour

vars == << devices, selectedDevice, deviceData, securityAlerts, loading, error,
           refreshInterval, isRefreshing, deviceInterval, dataInterval,
           pendingDevices, pendingData, cycle, now, dataResult, alertsResult,
           heatmapData, heatmapType, heatmapInterval, pendingHeatmap,
           heatmapResult, data, step, shown >>

pureVars == << data, step, shown >>

heatmapVars ==
    << heatmapData, heatmapType, heatmapInterval, pendingHeatmap, heatmapResult >>

pageVars ==
    << devices, selectedDevice, deviceData, securityAlerts, loading, error,
       refreshInterval, isRefreshing, deviceInterval, dataInterval,
       pendingDevices, pendingData, cycle, now, dataResult, alertsResult >>

SeqsUpTo(S, n) == UNION { [1..k -> S] : k \in 0..n }

\* the instants at which the clock is observed
ClockInstants ==
    {0} \cup { l * AttackWindowSeconds * MsPerSecond - s :
                 l \in 1..MaxLongSteps, s \in 0..MaxShortSteps }

(***************************************************************************)
(* What the server may answer.                                             *)
(***************************************************************************)
ServerDevices ==
    { [client_id |-> "mouse-001", name |-> <<"Gaming", "Mouse">>,
       device_type |-> "mouse"],
      [client_id |-> "keyboard-001", name |-> <<"Gaming", "Keyboard", "Sensor">>,
       device_type |-> "keyboard_sensor"],
      [client_id |-> "camera-001", name |-> <<"Camera">>, device_type |-> "camera"] }

ServerLists == SeqsUpTo(ServerDevices, MaxCatalog)

\* the list of a server whose catalog does not change
SteadyList ==
    << [client_id |-> "mouse-001", name |-> <<"Gaming", "Mouse">>,
        device_type |-> "mouse"],
       [client_id |-> "keyboard-001", name |-> <<"Gaming", "Keyboard", "Sensor">>,
        device_type |-> "keyboard_sensor"] >>

ServerSamples(deviceId) ==
    { [device_id |-> deviceId, metrics |-> Some("metrics"),
       status |-> Some([under_attack |-> u,
                        attack_duration |-> Some(IF u THEN 7 ELSE 0)])] :
        u \in BOOLEAN }

\* { data: [...] }, or a body without the data field
TelemetryResults(deviceId) ==
    { [data |-> Undefined] } \cup
    { [data |-> Some(l)] : l \in SeqsUpTo(ServerSamples(deviceId), MaxSamples) }

ServerAlerts(clock) ==
    { [timestamp |-> toISOString(t), event_type |-> e.type, severity |-> e.severity] :
        t \in { i \in ClockInstants : i <= clock },
        e \in { [type |-> "attack_detected", severity |-> "critical"],
                [type |-> "attack_resolved", severity |-> "warning"] } }

\* { alerts: [...] }, or a body without the alerts field
AlertResults(clock) ==
    { [alerts |-> Undefined] } \cup
    { [alerts |-> Some(l)] : l \in SeqsUpTo(ServerAlerts(clock), MaxAlerts) }

(***************************************************************************)
(* Timers and calls in flight.                                             *)
(***************************************************************************)
NoInterval == [armed |-> FALSE, deviceId |-> Null, delay |-> 0]

\* the devices interval of the render before, left armed
devicesTimer_keepsOld(sel) ==
    [armed |-> TRUE, deviceId |-> selectedDevice, delay |-> DevicePollMs]

\* setInterval(fetchDevices, 30000): fetchDevices closes over selectedDevice
devicesTimer(sel) == [armed |-> TRUE, deviceId |-> sel, delay |-> DevicePollMs]

\* the data interval of the render before, left armed
dataTimer_keepsOld(sel, interval) ==
    [armed |-> TRUE, deviceId |-> selectedDevice,
     delay |-> refreshInterval * MsPerSecond]

\* setInterval(fetchData, refreshInterval * 1000): fetchData closes over
\* selectedDevice
dataTimer(sel, interval) ==
    [armed |-> TRUE, deviceId |-> sel, delay |-> interval * MsPerSecond]

\* setInterval(fetchHeatmapData, 5000): fetchHeatmapData closes over deviceId
heatmapTimer(deviceId) == [armed |-> TRUE, deviceId |-> deviceId, delay |-> HeatmapPollMs]

\* fetchHeatmapData: if (!deviceId) return; otherwise one request
fetchHeatmapData(deviceId) == IF Falsy(deviceId) THEN {} ELSE {deviceId}

\* the alert call left out of the cycle
fetchData_telemetryOnly(deviceId, n) ==
    { [kind |-> "telemetry", deviceId |-> deviceId, cycle |-> n] }

\* Promise.all([fetchDeviceData(id), fetchSecurityAlerts(id)]): both calls
\* are made before either is awaited
fetchData(deviceId, n) ==
    { [kind |-> "telemetry", deviceId |-> deviceId, cycle |-> n],
      [kind |-> "alerts", deviceId |-> deviceId, cycle |-> n] }

\* fetchDevices reads the selectedDevice it closed over only as !selectedDevice
fetchDevices(sel) == SetToBag({Falsy(sel)})

\* a completed call: the body it resolved with, or its failure
NoResult == <<>>
Resolved(body) == << [ok |-> TRUE, body |-> body] >>
Failed == << [ok |-> FALSE, body |-> Undefined] >>

(***************************************************************************)
(* The two effects.  An effect re-runs, clean-up first, when one of its    *)
(* dependencies differs from the previous render.                          *)
(***************************************************************************)
\* isRefreshing among the dependencies of the devices effect
devicesEffectReruns_onPause(sel, interval, refreshing) ==
    sel # selectedDevice \/ refreshing # isRefreshing

\* useEffect(..., [selectedDevice])
devicesEffectReruns(sel, interval, refreshing) == sel # selectedDevice

\* refreshInterval missing from the dependencies of the data effect
dataEffectReruns_noCadence(sel, interval, refreshing) ==
    sel # selectedDevice \/ refreshing # isRefreshing

\* useEffect(..., [selectedDevice, refreshInterval, isRefreshing])
dataEffectReruns(sel, interval, refreshing) ==
    \/ sel # selectedDevice
    \/ interval # refreshInterval
    \/ refreshing # isRefreshing

\* the pause flag not consulted
dataLoopActive_ignoresPause(sel, refreshing) == ~Falsy(sel)

\* if (isRefreshing && selectedDevice)
dataLoopActive(sel, refreshing) == refreshing /\ ~Falsy(sel)

\* <DeviceHeatmap deviceId={selectedDevice} /> is rendered while the selection
\* is truthy.  Without a selection the child is unmounted: its timer is
\* cleared, its state is gone and its calls in flight have nothing to set.
\* With a new truthy selection its effect (dependencies [deviceId]) runs,
\* clean-up first: a fetch at once, the timer armed again.
HeatmapCommit(sel) ==
    IF Falsy(sel)
    THEN /\ heatmapData' = Undefined
         /\ heatmapType' = "position"
         /\ heatmapInterval' = NoInterval
         /\ pendingHeatmap' = {}
         /\ heatmapResult' = NoResult
    ELSE IF sel # selectedDevice
    THEN /\ pendingHeatmap' = pendingHeatmap \cup fetchHeatmapData(sel)
         /\ heatmapInterval' = heatmapTimer(sel)
         /\ UNCHANGED << heatmapData, heatmapType, heatmapResult >>
    ELSE UNCHANGED heatmapVars

\* The commit of a render in which the selection, the cadence and the pause
\* flag have the given values; pDevices and pData are the calls in flight
\* before the effects run.  The two effects of the page:
PageCommit(sel, interval, refreshing, pDevices, pData) ==
    /\ selectedDevice' = sel
    /\ refreshInterval' = interval
    /\ isRefreshing' = refreshing
    /\ IF devicesEffectReruns(sel, interval, refreshing)
       THEN /\ BagCardinality(pDevices) < MaxPendingDevices
            /\ pendingDevices' = pDevices (+) fetchDevices(sel)
            /\ deviceInterval' = devicesTimer(sel)
       ELSE /\ pendingDevices' = pDevices
            /\ UNCHANGED deviceInterval
    /\ IF dataEffectReruns(sel, interval, refreshing)
       THEN IF dataLoopActive(sel, refreshing)
            THEN /\ cycle < MaxCycles
                 /\ cycle' = cycle + 1
                 /\ pendingData' = pData \cup fetchData(sel, cycle + 1)
                 /\ dataInterval' = dataTimer(sel, interval)
            ELSE /\ dataInterval' = NoInterval
                 /\ pendingData' = pData
                 /\ UNCHANGED cycle
       ELSE /\ pendingData' = pData
            /\ UNCHANGED << dataInterval, cycle >>

\* the page's effects and those of the heatmap it renders
Commit(sel, interval, refreshing, pDevices, pData) ==
    /\ PageCommit(sel, interval, refreshing, pDevices, pData)
    /\ HeatmapCommit(sel)

(***************************************************************************)
(* The component after its first render and first effects.                 *)
(***************************************************************************)
Mounted ==
    /\ devices = <<>>
    /\ selectedDevice = Null
    /\ deviceData = <<>>
    /\ securityAlerts = <<>>
    /\ loading = TRUE
    /\ error = Null
    /\ refreshInterval = InitialRefreshInterval
    /\ isRefreshing = TRUE
    /\ deviceInterval = devicesTimer(Null)
    /\ dataInterval = NoInterval
    /\ pendingDevices = fetchDevices(Null)
    /\ pendingData = {}
    /\ cycle = 0
    /\ now = 0
    /\ dataResult = NoResult
    /\ alertsResult = NoResult
    /\ heatmapData = Undefined
    /\ heatmapType = "position"
    /\ heatmapInterval = NoInterval
    /\ pendingHeatmap = {}
    /\ heatmapResult = NoResult

Init ==
    /\ Mounted
    /\ data = [devices |-> <<>>]
    /\ step = 0
    /\ shown = renderDeviceStatus(<<>>, <<>>, 0)

(***************************************************************************)
(* The user's controls.  They are rendered once loading is false.          *)
(***************************************************************************)
\* <select value={selectedDevice || ''} onChange=... setSelectedDevice(value)>
selectDevice(id) ==
    /\ ~loading
    /\ id \in {Blank} \cup { devices[i].client_id : i \in DOMAIN devices }
    /\ id # (IF selectedDevice = Null THEN Blank ELSE selectedDevice)
    /\ Commit(id, refreshInterval, isRefreshing, pendingDevices, pendingData)
    /\ UNCHANGED << devices, deviceData, securityAlerts, loading, error, now,
                    dataResult, alertsResult, pureVars >>

\* onChange=... setRefreshInterval(parseInt(value))
setCadence(seconds) ==
    /\ ~loading
    /\ seconds \in Cadences
    /\ seconds # refreshInterval
    /\ Commit(selectedDevice, seconds, isRefreshing, pendingDevices, pendingData)
    /\ UNCHANGED << devices, deviceData, securityAlerts, loading, error, now,
                    dataResult, alertsResult, pureVars >>

\* onClick=... setIsRefreshing(!isRefreshing)
togglePause ==
    /\ ~loading
    /\ Commit(selectedDevice, refreshInterval, ~isRefreshing, pendingDevices, pendingData)
    /\ UNCHANGED << devices, deviceData, securityAlerts, loading, error, now,
                    dataResult, alertsResult, pureVars >>

(***************************************************************************)
(* Timers.                                                                 *)
(***************************************************************************)
\* the devices interval calls fetchDevices
deviceIntervalFires ==
    /\ deviceInterval.armed
    /\ BagCardinality(pendingDevices) < MaxPendingDevices
    /\ pendingDevices' = pendingDevices (+) fetchDevices(deviceInterval.deviceId)
    /\ UNCHANGED << devices, selectedDevice, deviceData, securityAlerts, loading,
                    error, refreshInterval, isRefreshing, deviceInterval,
                    dataInterval, pendingData, cycle, now, dataResult,
                    alertsResult, heatmapVars,
                    pureVars >>

\* the data interval calls fetchData
dataIntervalFires ==
    /\ dataInterval.armed
    /\ cycle < MaxCycles
    /\ cycle' = cycle + 1
    /\ pendingData' = pendingData \cup fetchData(dataInterval.deviceId, cycle + 1)
    /\ UNCHANGED << devices, selectedDevice, deviceData, securityAlerts, loading,
                    error, refreshInterval, isRefreshing, deviceInterval,
                    dataInterval, pendingDevices, now, dataResult, alertsResult,
                    heatmapVars,
                    pureVars >>

\* the data interval calls fetchData after MaxCycles cycles were numbered and
\* all their calls have completed: the numbering starts again
dataIntervalFiresAnew ==
    /\ dataInterval.armed
    /\ cycle = MaxCycles
    /\ pendingData = {}
    /\ cycle' = 1
    /\ pendingData' = fetchData(dataInterval.deviceId, 1)
    /\ UNCHANGED << devices, selectedDevice, deviceData, securityAlerts, loading,
                    error, refreshInterval, isRefreshing, deviceInterval,
                    dataInterval, pendingDevices, now, dataResult, alertsResult,
                    heatmapVars, pureVars >>

(***************************************************************************)
(* Completions of fetchDevices.                                            *)
(***************************************************************************)
\* if (list.length > 0 && !selectedDevice) setSelectedDevice(list[0].client_id)
\* with the closed-over selectedDevice; the live selection is kept otherwise
defaultSelection(list, noSelection) ==
    IF Len(list) > 0 /\ noSelection
    THEN list[1].client_id
    ELSE selectedDevice

fetchDevicesResolved(noSelection, rawDevices) ==
    /\ CopiesIn(noSelection, pendingDevices) > 0
    /\ LET list == renamedDevices(iotDevices(rawDevices))
       IN  /\ devices' = list
           /\ Commit(defaultSelection(list, noSelection), refreshInterval,
                     isRefreshing, pendingDevices (-) SetToBag({noSelection}),
                     pendingData)
    /\ loading' = FALSE
    /\ UNCHANGED << deviceData, securityAlerts, error, now, dataResult,
                    alertsResult, pureVars >>

\* the request is rejected, the status is not ok, or the body has no
\* devices list: all three end in the catch block
fetchDevicesFailed(noSelection) ==
    /\ CopiesIn(noSelection, pendingDevices) > 0
    /\ error' = ErrorMessage
    /\ devices' = fallbackDevices
    /\ Commit(defaultSelection(fallbackDevices, noSelection), refreshInterval,
              isRefreshing, pendingDevices (-) SetToBag({noSelection}), pendingData)
    /\ loading' = FALSE
    /\ UNCHANGED << deviceData, securityAlerts, now, dataResult, alertsResult,
                    pureVars >>

(***************************************************************************)
(* Completions of fetchDeviceData and fetchSecurityAlerts.                 *)
(***************************************************************************)
\* the samples stored newest first
deviceDataAfter_reversed(result) ==
    [i \in 1..Len(dataOf(result)) |-> dataOf(result)[Len(dataOf(result)) + 1 - i]]

\* setDeviceData(result.data || [])
deviceDataAfter(result) == dataOf(result)

\* setSecurityAlerts(result.alerts || [])
securityAlertsAfter(result) == alertsOf(result)

fetchDeviceDataResolved(call, result) ==
    /\ call \in pendingData
    /\ call.kind = "telemetry"
    /\ result \in TelemetryResults(call.deviceId)
    /\ deviceData' = deviceDataAfter(result)
    /\ dataResult' = Resolved(result)
    /\ pendingData' = pendingData \ {call}
    /\ UNCHANGED << devices, selectedDevice, securityAlerts, loading, error,
                    refreshInterval, isRefreshing, deviceInterval, dataInterval,
                    pendingDevices, cycle, now, alertsResult, heatmapVars,
                    pureVars >>

fetchDeviceDataFailed(call) ==
    /\ call \in pendingData
    /\ call.kind = "telemetry"
    /\ deviceData' = << fallbackSample(call.deviceId) >>
    /\ dataResult' = Failed
    /\ pendingData' = pendingData \ {call}
    /\ UNCHANGED << devices, selectedDevice, securityAlerts, loading, error,
                    refreshInterval, isRefreshing, deviceInterval, dataInterval,
                    pendingDevices, cycle, now, alertsResult, heatmapVars,
                    pureVars >>

fetchSecurityAlertsResolved(call, result) ==
    /\ call \in pendingData
    /\ call.kind = "alerts"
    /\ result \in AlertResults(now)
    /\ securityAlerts' = securityAlertsAfter(result)
    /\ alertsResult' = Resolved(result)
    /\ pendingData' = pendingData \ {call}
    /\ UNCHANGED << devices, selectedDevice, deviceData, loading, error,
                    refreshInterval, isRefreshing, deviceInterval, dataInterval,
                    pendingDevices, cycle, now, dataResult, heatmapVars,
                    pureVars >>

fetchSecurityAlertsFailed(call) ==
    /\ call \in pendingData
    /\ call.kind = "alerts"
    /\ securityAlerts' = << fallbackAlert(now) >>
    /\ alertsResult' = Failed
    /\ pendingData' = pendingData \ {call}
    /\ UNCHANGED << devices, selectedDevice, deviceData, loading, error,
                    refreshInterval, isRefreshing, deviceInterval, dataInterval,
                    pendingDevices, cycle, now, dataResult, heatmapVars,
                    pureVars >>

(***************************************************************************)
(* The heatmap component: its timer, its completions, its two buttons.     *)
(***************************************************************************)
\* the heatmap interval calls fetchHeatmapData
heatmapIntervalFires ==
    /\ heatmapInterval.armed
    /\ heatmapInterval.deviceId \notin pendingHeatmap
    /\ pendingHeatmap' = pendingHeatmap \cup fetchHeatmapData(heatmapInterval.deviceId)
    /\ UNCHANGED << devices, selectedDevice, deviceData, securityAlerts, loading,
                    error, refreshInterval, isRefreshing, deviceInterval,
                    dataInterval, pendingDevices, pendingData, cycle, now,
                    dataResult, alertsResult, heatmapData, heatmapType,
                    heatmapInterval, heatmapResult, pureVars >>

\* setHeatmapData(data) with the body of an ok response
fetchHeatmapResolved(deviceId, body) ==
    /\ deviceId \in pendingHeatmap
    /\ body \in ServerHeatmaps
    /\ heatmapData' = Some(body)
    /\ heatmapResult' = Resolved(body)
    /\ pendingHeatmap' = pendingHeatmap \ {deviceId}
    /\ UNCHANGED << devices, selectedDevice, deviceData, securityAlerts, loading,
                    error, refreshInterval, isRefreshing, deviceInterval,
                    dataInterval, pendingDevices, pendingData, cycle, now,
                    dataResult, alertsResult, heatmapType, heatmapInterval,
                    pureVars >>

\* a failure that also clears the heatmap interval
fetchHeatmapFailed_stopsPolling(deviceId, dummy) ==
    /\ deviceId \in pendingHeatmap
    /\ dummy \in generateDummyHeatmap
    /\ heatmapData' = Some(dummy)
    /\ heatmapResult' = Failed
    /\ heatmapInterval' = NoInterval
    /\ pendingHeatmap' = pendingHeatmap \ {deviceId}
    /\ UNCHANGED << devices, selectedDevice, deviceData, securityAlerts, loading,
                    error, refreshInterval, isRefreshing, deviceInterval,
                    dataInterval, pendingDevices, pendingData, cycle, now,
                    dataResult, alertsResult, heatmapType, pureVars >>

\* the request is rejected or the status is not ok: generateDummyHeatmap()
fetchHeatmapFailed(deviceId, dummy) ==
    /\ deviceId \in pendingHeatmap
    /\ dummy \in generateDummyHeatmap
    /\ heatmapData' = Some(dummy)
    /\ heatmapResult' = Failed
    /\ pendingHeatmap' = pendingHeatmap \ {deviceId}
    /\ UNCHANGED << devices, selectedDevice, deviceData, securityAlerts, loading,
                    error, refreshInterval, isRefreshing, deviceInterval,
                    dataInterval, pendingDevices, pendingData, cycle, now,
                    dataResult, alertsResult, heatmapType, heatmapInterval,
                    pureVars >>

\* the request fails and generateDummyHeatmap() throws inside the catch block:
\* setHeatmapData is not reached
fetchHeatmapFailedThrows(deviceId) ==
    /\ deviceId \in pendingHeatmap
    /\ generateDummyHeatmapThrows
    /\ heatmapResult' = Failed
    /\ pendingHeatmap' = pendingHeatmap \ {deviceId}
    /\ UNCHANGED << devices, selectedDevice, deviceData, securityAlerts, loading,
                    error, refreshInterval, isRefreshing, deviceInterval,
                    dataInterval, pendingDevices, pendingData, cycle, now,
                    dataResult, alertsResult, heatmapData, heatmapType,
                    heatmapInterval, pureVars >>

\* onClick=... setHeatmapType('position' | 'click'); the buttons are rendered
\* once the component holds heatmap data
setHeatmapType(type) ==
    /\ heatmapData # Undefined
    /\ type \in {"position", "click"}
    /\ type # heatmapType
    /\ heatmapType' = type
    /\ UNCHANGED << devices, selectedDevice, deviceData, securityAlerts, loading,
                    error, refreshInterval, isRefreshing, deviceInterval,
                    dataInterval, pendingDevices, pendingData, cycle, now,
                    dataResult, alertsResult, heatmapData, heatmapInterval,
                    pendingHeatmap, heatmapResult, pureVars >>

(***************************************************************************)
(* Time passes.                                                            *)
(***************************************************************************)
Tick(t) ==
    /\ t \in ClockInstants
    /\ t > now
    /\ now' = t
    /\ UNCHANGED << devices, selectedDevice, deviceData, securityAlerts, loading,
                    error, refreshInterval, isRefreshing, deviceInterval,
                    dataInterval, pendingDevices, pendingData, cycle, dataResult,
                    alertsResult, heatmapVars,
                    pureVars >>

(***************************************************************************)
(* The component with every input.                                         *)
(***************************************************************************)
SelectableIds == {Blank, "mouse-001", "keyboard-001"}

Next ==
    \/ \E id \in SelectableIds : selectDevice(id)
    \/ \E seconds \in Cadences : setCadence(seconds)
    \/ togglePause
    \/ deviceIntervalFires
    \/ dataIntervalFires
    \/ dataIntervalFiresAnew
    \/ \E noSelection \in BOOLEAN, rawDevices \in ServerLists :
           fetchDevicesResolved(noSelection, rawDevices)
    \/ \E noSelection \in BOOLEAN : fetchDevicesFailed(noSelection)
    \/ \E call \in pendingData :
           \E result \in TelemetryResults(call.deviceId) :
               fetchDeviceDataResolved(call, result)
    \/ \E call \in pendingData : fetchDeviceDataFailed(call)
    \/ \E call \in pendingData :
           \E result \in AlertResults(now) : fetchSecurityAlertsResolved(call, result)
    \/ \E call \in pendingData : fetchSecurityAlertsFailed(call)
    \/ heatmapIntervalFires
    \/ \E deviceId \in pendingHeatmap, body \in ServerHeatmaps :
           fetchHeatmapResolved(deviceId, body)
    \/ \E deviceId \in pendingHeatmap, dummy \in generateDummyHeatmap :
           fetchHeatmapFailed(deviceId, dummy)
    \/ \E deviceId \in pendingHeatmap : fetchHeatmapFailedThrows(deviceId)
    \/ \E type \in {"position", "click"} : setHeatmapType(type)
    \/ \E t \in ClockInstants : Tick(t)

Spec == Init /\ [][Next]_vars

(***************************************************************************)
(* The control plane: every control, every catalog answer; the data        *)
(* endpoints answer each call with an empty body, at one instant.          *)
(***************************************************************************)
\* the cadences the user picks
PickedCadences == {1, 5}

NextControl ==
    \/ \E id \in SelectableIds : selectDevice(id)
    \/ \E seconds \in PickedCadences : setCadence(seconds)
    \/ togglePause
    \/ deviceIntervalFires
    \/ dataIntervalFires
    \/ \E noSelection \in BOOLEAN, rawDevices \in ServerLists :
           fetchDevicesResolved(noSelection, rawDevices)
    \/ \E noSelection \in BOOLEAN : fetchDevicesFailed(noSelection)
    \/ \E call \in pendingData : fetchDeviceDataResolved(call, [data |-> Some(<<>>)])
    \/ \E call \in pendingData :
           fetchSecurityAlertsResolved(call, [alerts |-> Some(<<>>)])

SpecControl == Init /\ [][NextControl]_vars

(***************************************************************************)
(* The data plane: the catalog is steady and the cadence is left alone;    *)
(* the data endpoints answer with any body or fail, while time passes.     *)
(***************************************************************************)
NextData ==
    \/ \E id \in SelectableIds : selectDevice(id)
    \/ togglePause
    \/ deviceIntervalFires
    \/ dataIntervalFires
    \/ \E noSelection \in BOOLEAN : fetchDevicesResolved(noSelection, SteadyList)
    \/ \E call \in pendingData :
           \E result \in TelemetryResults(call.deviceId) :
               fetchDeviceDataResolved(call, result)
    \/ \E call \in pendingData : fetchDeviceDataFailed(call)
    \/ \E call \in pendingData :
           \E result \in AlertResults(now) : fetchSecurityAlertsResolved(call, result)
    \/ \E call \in pendingData : fetchSecurityAlertsFailed(call)
    \/ \E t \in ClockInstants : Tick(t)

SpecData == Init /\ [][NextData]_vars

(***************************************************************************)
(* The normaliser alone: a drawn response body, normalised as              *)
(* fetchDevices does, and its rename step applied again to the result.     *)
(***************************************************************************)
Kinds == { "mouse", "keyboard", "headset", "mouse_sensor", "keyboard_sensor",
           "headset_sensor", "camera" }

Words == { "Mouse", "Keyboard", "Headset", "Sensor", "Gaming" }

Names == SeqsUpTo(Words, MaxNameWords) \ { <<>> }

RawDevices(id) ==
    { [client_id |-> id, name |-> n, device_type |-> k] : n \in Names, k \in Kinds }

\* lists whose i-th device has the id "d<i>"
RawIds == << "d1", "d2", "d3" >>
RawLists ==
    UNION { { l \in [1..k -> UNION { RawDevices(RawIds[i]) : i \in 1..k }] :
                \A i \in 1..k : l[i].client_id = RawIds[i] } : k \in 0..MaxRawDevices }

InitNorm ==
    /\ Mounted
    /\ data \in { [devices |-> l] : l \in RawLists }
    /\ step = 0
    /\ shown = renderDeviceStatus(<<>>, <<>>, 0)

\* setDevices(renamedDevices) of a first response
normalise ==
    /\ step = 0
    /\ devices' = renamedDevices(iotDevices(data.devices))
    /\ step' = 1
    /\ UNCHANGED << selectedDevice, deviceData, securityAlerts, loading, error,
                    refreshInterval, isRefreshing, deviceInterval, dataInterval,
                    pendingDevices, pendingData, cycle, now, dataResult,
                    alertsResult, heatmapVars, data,
                    shown >>

\* the rename step applied to the catalog it produced
renormalise ==
    /\ step = 1
    /\ devices' = renamedDevices(devices)
    /\ step' = 2
    /\ UNCHANGED << selectedDevice, deviceData, securityAlerts, loading, error,
                    refreshInterval, isRefreshing, deviceInterval, dataInterval,
                    pendingDevices, pendingData, cycle, now, dataResult,
                    alertsResult, heatmapVars, data,
                    shown >>

NextNorm == normalise \/ renormalise

SpecNorm == InitNorm /\ [][NextNorm]_vars

(***************************************************************************)
(* The catalog of a server whose device list does not change: the list is  *)
(* drawn once and every catalog request is answered with it.               *)
(***************************************************************************)
\* the server's lists, and lists whose second device is of any kind
CatalogLists ==
    ServerLists \cup
    { << d, [client_id |-> "keyboard-001", name |-> <<"Gaming">>, device_type |-> k] >> :
        d \in ServerDevices, k \in Kinds }

InitCatalog ==
    /\ Mounted
    /\ data \in { [devices |-> l] : l \in CatalogLists }
    /\ step = 0
    /\ shown = renderDeviceStatus(<<>>, <<>>, 0)

NextCatalog ==
    \/ \E id \in SelectableIds : selectDevice(id)
    \/ deviceIntervalFires
    \/ dataIntervalFires
    \/ \E noSelection \in BOOLEAN : fetchDevicesResolved(noSelection, data.devices)
    \/ \E call \in pendingData : fetchDeviceDataResolved(call, [data |-> Some(<<>>)])
    \/ \E call \in pendingData :
           fetchSecurityAlertsResolved(call, [alerts |-> Some(<<>>)])

SpecCatalog == InitCatalog /\ [][NextCatalog]_vars

(***************************************************************************)
(* The three polling loops left to themselves: nobody touches the          *)
(* controls, every request may fail or succeed.  Timers that stay armed    *)
(* keep firing, and the server does not fail a kind of request for ever.   *)
(***************************************************************************)
\* the list of a server with one device
LiveList ==
    << [client_id |-> "mouse-001", name |-> <<"Gaming", "Mouse">>,
        device_type |-> "mouse"] >>

devicesAnswered == \E noSelection \in BOOLEAN : fetchDevicesResolved(noSelection, LiveList)

telemetryAnswered ==
    \E call \in pendingData : fetchDeviceDataResolved(call, [data |-> Some(<<>>)])

alertsAnswered ==
    \E call \in pendingData : fetchSecurityAlertsResolved(call, [alerts |-> Some(<<>>)])

heatmapAnswered ==
    \E deviceId \in pendingHeatmap, body \in ServerHeatmaps :
        fetchHeatmapResolved(deviceId, body)

NextLive ==
    \/ deviceIntervalFires
    \/ dataIntervalFires
    \/ dataIntervalFiresAnew
    \/ heatmapIntervalFires
    \/ devicesAnswered
    \/ \E noSelection \in BOOLEAN : fetchDevicesFailed(noSelection)
    \/ telemetryAnswered
    \/ \E call \in pendingData : fetchDeviceDataFailed(call)
    \/ alertsAnswered
    \/ \E call \in pendingData : fetchSecurityAlertsFailed(call)
    \/ heatmapAnswered
    \/ \E deviceId \in pendingHeatmap, dummy \in generateDummyHeatmap :
           fetchHeatmapFailed(deviceId, dummy)
    \/ \E deviceId \in pendingHeatmap : fetchHeatmapFailedThrows(deviceId)

SpecLive ==
    /\ Init
    /\ [][NextLive]_vars
    /\ WF_vars(deviceIntervalFires)
    /\ WF_vars(dataIntervalFires)
    /\ WF_vars(dataIntervalFiresAnew)
    /\ WF_vars(heatmapIntervalFires)
    /\ SF_vars(devicesAnswered)
    /\ SF_vars(telemetryAnswered)
    /\ SF_vars(alertsAnswered)
    /\ SF_vars(heatmapAnswered)

(***************************************************************************)
(* The heatmap of the selected device: the catalog is steady, the data     *)
(* endpoints answer with empty bodies, the heatmap endpoint answers with   *)
(* any body or fails.                                                      *)
(***************************************************************************)
NextHeatmap ==
    \/ \E id \in SelectableIds : selectDevice(id)
    \/ \E seconds \in PickedCadences : setCadence(seconds)
    \/ togglePause
    \/ dataIntervalFires
    \/ heatmapIntervalFires
    \/ \E noSelection \in BOOLEAN : fetchDevicesResolved(noSelection, SteadyList)
    \/ \E call \in pendingData : fetchDeviceDataResolved(call, [data |-> Some(<<>>)])
    \/ \E call \in pendingData :
           fetchSecurityAlertsResolved(call, [alerts |-> Some(<<>>)])
    \/ \E deviceId \in pendingHeatmap, body \in ServerHeatmaps :
           fetchHeatmapResolved(deviceId, body)
    \/ \E deviceId \in pendingHeatmap, dummy \in generateDummyHeatmap :
           fetchHeatmapFailed(deviceId, dummy)
    \/ \E deviceId \in pendingHeatmap : fetchHeatmapFailedThrows(deviceId)
    \/ \E type \in {"position", "click"} : setHeatmapType(type)

SpecHeatmap == Init /\ [][NextHeatmap]_vars

(***************************************************************************)
(* The verdict alone: drawn buffers and a drawn clock, rendered.           *)
(***************************************************************************)
VerdictSamples ==
    { [device_id |-> "mouse-001", metrics |-> Some("metrics"), status |-> st] :
        st \in { Undefined,
                 Some([under_attack |-> FALSE, attack_duration |-> Some(0)]),
                 Some([under_attack |-> FALSE, attack_duration |-> Some(3)]),
                 Some([under_attack |-> TRUE, attack_duration |-> Some(7)]),
                 Some([under_attack |-> TRUE, attack_duration |-> Undefined]) } }
    \cup
    { [device_id |-> "mouse-001", metrics |-> Undefined,
       status |-> Some([under_attack |-> FALSE, attack_duration |-> Some(0)])] }

\* alerts with a well-formed timestamp at an observed instant, or with a
\* timestamp that does not parse
VerdictAlerts ==
    { [timestamp |-> ts, event_type |-> "attack_detected", severity |-> sev] :
        ts \in { toISOString(t) : t \in ClockInstants } \cup { Undefined },
        sev \in { "critical", "warning", "info" } }

InitVerdict ==
    /\ devices = <<>>
    /\ selectedDevice = "mouse-001"
    /\ deviceData \in SeqsUpTo(VerdictSamples, MaxSamples)
    /\ securityAlerts \in SeqsUpTo(VerdictAlerts, MaxAlerts)
    /\ loading = FALSE
    /\ error = Null
    /\ refreshInterval = InitialRefreshInterval
    /\ isRefreshing = FALSE
    /\ deviceInterval = devicesTimer("mouse-001")
    /\ dataInterval = NoInterval
    /\ pendingDevices = EmptyBag
    /\ pendingData = {}
    /\ cycle = 0
    /\ now \in ClockInstants
    /\ dataResult = NoResult
    /\ alertsResult = NoResult
    /\ heatmapData = Undefined
    /\ heatmapType = "position"
    /\ heatmapInterval = heatmapTimer("mouse-001")
    /\ pendingHeatmap = fetchHeatmapData("mouse-001")
    /\ heatmapResult = NoResult
    /\ data = [devices |-> <<>>]
    /\ step = 0
    /\ shown = renderDeviceStatus(<<>>, <<>>, 0)

\* the device card of a render at the present instant
render ==
    /\ step = 0
    /\ shown' = renderDevice(deviceData, securityAlerts, now)
    /\ step' = 1
    /\ UNCHANGED << devices, selectedDevice, deviceData, securityAlerts, loading,
                    error, refreshInterval, isRefreshing, deviceInterval,
                    dataInterval, pendingDevices, pendingData, cycle, now,
                    dataResult, alertsResult, heatmapVars,
                    data >>

NextVerdict == render

SpecVerdict == InitVerdict /\ [][NextVerdict]_vars

(***************************************************************************)
(* The colour mapping alone: a drawn cell value is painted, then the       *)
(* values above it, one unit at a time.                                    *)
(***************************************************************************)
CellValues == 0..(MaxCellValue * CellValueScale)

InitColor ==
    /\ Mounted
    /\ data \in { [value |-> v] : v \in CellValues }
    /\ step = 0
    /\ shown = Rgba(0, 0, 0, 0)

\* backgroundColor: getColor(value) of a cell
paint ==
    /\ step = 0
    /\ shown' = getColor(data.value)
    /\ step' = 1
    /\ UNCHANGED << pageVars, heatmapVars, data >>

\* getColor of a cell whose value is one unit higher
paintNext ==
    /\ step = 1
    /\ data.value + 1 \in CellValues
    /\ data' = [value |-> data.value + 1]
    /\ shown' = getColor(data.value + 1)
    /\ UNCHANGED << pageVars, heatmapVars, step >>

NextColor == paint \/ paintNext

SpecColor == InitColor /\ [][NextColor]_vars

(***************************************************************************)
(* The generator alone: one iteration of a drawn loop with drawn values of *)
(* Math.random().                                                          *)
(***************************************************************************)
InitGenerator ==
    /\ Mounted
    /\ data \in { [cluster |-> c, rx |-> rx, ry |-> ry, rc |-> rc] :
                    c \in Clusters, rx \in Draws, ry \in Draws, rc \in Draws }
    /\ step = 0
    /\ shown = [x |-> 0, y |-> 0, thrown |-> FALSE, moved |-> FALSE, clicked |-> FALSE]

iterate ==
    /\ step = 0
    /\ shown' = iteration(data.cluster, data.rx, data.ry, data.rc)
    /\ step' = 1
    /\ UNCHANGED << pageVars, heatmapVars, data >>

NextGenerator == iterate

SpecGenerator == InitGenerator /\ [][NextGenerator]_vars

(***************************************************************************)
(* The earlier variant of the page (src/unnamed/part_000).  Its state and  *)
(* its two effects are those of the page above; it renders no heatmap, its *)
(* catch blocks substitute nothing, and it renders the error card instead  *)
(* of the controls once error is set.                                      *)
(***************************************************************************)
\* the predicate of data.devices.filter(...) in part_000
isIoTDevice_part000(device) ==
    \/ device.device_type = "mouse"
    \/ device.device_type = "keyboard"
    \/ device.device_type = "headset"

iotDevices_part000(rawDevices) == SelectSeq(rawDevices, isIoTDevice_part000)

\* <select ... onChange=... setSelectedDevice(value)>, rendered after
\* `if (loading) return ...` and `if (error) return ...`
selectDevice_part000(id) ==
    /\ ~loading
    /\ error = Null
    /\ id \in {Blank} \cup { devices[i].client_id : i \in DOMAIN devices }
    /\ id # (IF selectedDevice = Null THEN Blank ELSE selectedDevice)
    /\ PageCommit(id, refreshInterval, isRefreshing, pendingDevices, pendingData)
    /\ UNCHANGED << devices, deviceData, securityAlerts, loading, error, now,
                    dataResult, alertsResult, heatmapVars, pureVars >>

\* setDevices(iotDevices); the first device selected by default; finally
\* setLoading(false).  error is not set on this path.
fetchDevicesResolved_part000(noSelection, rawDevices) ==
    /\ CopiesIn(noSelection, pendingDevices) > 0
    /\ LET list == iotDevices_part000(rawDevices)
       IN  /\ devices' = list
           /\ PageCommit(defaultSelection(list, noSelection), refreshInterval,
                         isRefreshing, pendingDevices (-) SetToBag({noSelection}),
                         pendingData)
    /\ loading' = FALSE
    /\ UNCHANGED << deviceData, securityAlerts, error, now, dataResult,
                    alertsResult, heatmapVars, pureVars >>

\* catch: setError(...); finally setLoading(false)
fetchDevicesFailed_part000(noSelection) ==
    /\ CopiesIn(noSelection, pendingDevices) > 0
    /\ pendingDevices' = pendingDevices (-) SetToBag({noSelection})
    /\ error' = ErrorMessage
    /\ loading' = FALSE
    /\ UNCHANGED << devices, selectedDevice, deviceData, securityAlerts,
                    refreshInterval, isRefreshing, deviceInterval, dataInterval,
                    pendingData, cycle, now, dataResult, alertsResult,
                    heatmapVars, pureVars >>

\* catch: console.error(...) and nothing else
fetchDeviceDataFailed_part000(call) ==
    /\ call \in pendingData
    /\ call.kind = "telemetry"
    /\ dataResult' = Failed
    /\ pendingData' = pendingData \ {call}
    /\ UNCHANGED << devices, selectedDevice, deviceData, securityAlerts, loading,
                    error, refreshInterval, isRefreshing, deviceInterval,
                    dataInterval, pendingDevices, cycle, now, alertsResult,
                    heatmapVars, pureVars >>

fetchSecurityAlertsFailed_part000(call) ==
    /\ call \in pendingData
    /\ call.kind = "alerts"
    /\ alertsResult' = Failed
    /\ pendingData' = pendingData \ {call}
    /\ UNCHANGED << devices, selectedDevice, deviceData, securityAlerts, loading,
                    error, refreshInterval, isRefreshing, deviceInterval,
                    dataInterval, pendingDevices, cycle, now, dataResult,
                    heatmapVars, pureVars >>

\* the lists /api/devices answers with: the legacy kinds of part_000
Part000Lists ==
    SeqsUpTo({ [client_id |-> "mouse-001", name |-> <<"Gaming", "Mouse">>,
                device_type |-> "mouse"],
               [client_id |-> "keyboard-001", name |-> <<"Gaming", "Keyboard">>,
                device_type |-> "keyboard"],
               [client_id |-> "cam-001", name |-> <<"Camera">>,
                device_type |-> "camera"] }, MaxCatalog)

NextPart000 ==
    \/ \E id \in SelectableIds : selectDevice_part000(id)
    \/ deviceIntervalFires
    \/ dataIntervalFires
    \/ \E noSelection \in BOOLEAN, rawDevices \in Part000Lists :
           fetchDevicesResolved_part000(noSelection, rawDevices)
    \/ \E noSelection \in BOOLEAN : fetchDevicesFailed_part000(noSelection)
    \/ \E call \in pendingData :
           \E result \in TelemetryResults(call.deviceId) :
               fetchDeviceDataResolved(call, result)
    \/ \E call \in pendingData : fetchDeviceDataFailed_part000(call)
    \/ \E call \in pendingData :
           \E result \in AlertResults(now) : fetchSecurityAlertsResolved(call, result)
    \/ \E call \in pendingData : fetchSecurityAlertsFailed_part000(call)

SpecPart000 == Init /\ [][NextPart000]_vars

(***************************************************************************)
(* Properties.                                                             *)
(***************************************************************************)
IsPrefix(s, t) == Len(s) <= Len(t) /\ SubSeq(t, 1, Len(s)) = s

\* the calls a step completes
Completed == pendingData \ pendingData'

\* the list a body carries under the given field, empty when the field is absent
Listed(field) == IF field = Undefined THEN <<>> ELSE field[1]

\* C1: a telemetry or alert response requested for one device that arrives
\* while another device is selected is not written into the buffers shown for
\* the selected device.
C1_StaleResponseDiscarded ==
    [][ \A call \in Completed :
            (~Falsy(selectedDevice) /\ call.deviceId # selectedDevice) =>
                /\ call.kind = "telemetry" => deviceData' = deviceData
                /\ call.kind = "alerts" => securityAlerts' = securityAlerts ]_vars

\* C2: the rendered verdict is 'under attack' exactly when the latest sample
\* reports it or some critical alert is less than 60 000 ms old; an alert aged
\* exactly 60 000 ms does not count, one aged 59 999 ms does.
C2_VerdictRule ==
    step = 1 =>
        LET selfReported ==
                /\ Len(deviceData) > 0
                /\ deviceData[Len(deviceData)].status # Undefined
                /\ deviceData[Len(deviceData)].status[1].under_attack
            recentCritical ==
                \E i \in DOMAIN securityAlerts :
                    /\ securityAlerts[i].severity = "critical"
                    /\ securityAlerts[i].timestamp # Undefined
                    /\ now - securityAlerts[i].timestamp[1] < 60000
        IN  shown.isAttacked = (selfReported \/ recentCritical)

\* a verdict of 'under attack' owed only to a critical alert aged 59 999 ms
C2_Witness ==
    /\ step = 1
    /\ shown.isAttacked
    /\ ~getDeviceStatus(deviceData).under_attack
    /\ \E i \in DOMAIN securityAlerts :
           /\ securityAlerts[i].severity = "critical"
           /\ securityAlerts[i].timestamp # Undefined
           /\ now - securityAlerts[i].timestamp[1] = 59999

\* C3: the selection is always empty or the id of a device of the catalog: a
\* refresh that drops the selected device re-selects the first device or none.
C3_SelectionInCatalog ==
    \/ Falsy(selectedDevice)
    \/ \E i \in DOMAIN devices : devices[i].client_id = selectedDevice

\* C4: the data timer is armed, and a fetch cycle is started, only where
\* isRefreshing is true and a device is selected; the calls of a started cycle
\* are for the selected device.
C4_DataLoopOnlyWhenActive ==
    [][ /\ (dataInterval'.armed \/ cycle' # cycle) =>
               (isRefreshing' /\ ~Falsy(selectedDevice'))
        /\ \A call \in pendingData' \ pendingData :
               call.deviceId = selectedDevice' ]_vars

\* paused with a device selected after a cycle ran: no timer is armed
C4_Witness ==
    /\ ~isRefreshing
    /\ ~Falsy(selectedDevice)
    /\ cycle > 0
    /\ ~dataInterval.armed

\* C5: a change of selection, cadence or pause flag that leaves the data loop
\* active starts exactly one cycle for the selected device and arms the data
\* timer with the configured cadence; an armed data timer always has the
\* configured cadence and the selected device.
C5_ReconfigurationRestartsLoop ==
    [][ /\ ( /\ << selectedDevice', refreshInterval', isRefreshing' >> #
                    << selectedDevice, refreshInterval, isRefreshing >>
             /\ isRefreshing'
             /\ ~Falsy(selectedDevice') ) =>
               /\ cycle' = cycle + 1
               /\ pendingData' \ pendingData =
                      { [kind |-> k, deviceId |-> selectedDevice', cycle |-> cycle'] :
                          k \in {"telemetry", "alerts"} }
               /\ dataInterval'.armed
        /\ dataInterval'.armed =>
               /\ dataInterval'.delay = refreshInterval' * 1000
               /\ dataInterval'.deviceId = selectedDevice' ]_vars

\* the timer re-armed at one second by a change of cadence, its cycle started
C5_Witness ==
    /\ refreshInterval = 1
    /\ dataInterval.armed
    /\ dataInterval.delay = 1000
    /\ cycle = 2
    /\ \E call \in pendingData : call.cycle = 2

\* C6: a cycle issues the telemetry call and the alert call together; the
\* completion of one leaves the other's buffer and pending call alone; where
\* the last telemetry call failed and the last alert call succeeded the alert
\* buffer holds the server's alerts, and the other way round.
C6_IndependentOutcomes ==
    [][ /\ cycle' # cycle =>
               \E id \in {selectedDevice', dataInterval.deviceId} :
                   pendingData' \ pendingData =
                       { [kind |-> k, deviceId |-> id, cycle |-> cycle'] :
                           k \in {"telemetry", "alerts"} }
        /\ \A call \in Completed :
               /\ call.kind = "telemetry" =>
                      /\ securityAlerts' = securityAlerts
                      /\ { c \in pendingData : c.kind = "alerts" } \subseteq pendingData'
               /\ call.kind = "alerts" =>
                      /\ deviceData' = deviceData
                      /\ { c \in pendingData : c.kind = "telemetry" } \subseteq pendingData'
        /\ (dataResult' = Failed /\ alertsResult' # NoResult /\ alertsResult'[1].ok) =>
               securityAlerts' = Listed(alertsResult'[1].body.alerts)
        /\ (alertsResult' = Failed /\ dataResult' # NoResult /\ dataResult'[1].ok) =>
               deviceData' = Listed(dataResult'[1].body.data) ]_vars

\* the only cycle so far: its telemetry call failed, its alert call brought an
\* alert
C6_Witness ==
    /\ cycle = 1
    /\ pendingData = {}
    /\ dataResult = Failed
    /\ alertsResult # NoResult
    /\ alertsResult[1].ok
    /\ Len(securityAlerts) = 1
    /\ deviceData = << fallbackSample(selectedDevice) >>

C8_OtherDevicesDataKept ==
    [][ \A call \in Completed :
            /\ ( /\ call.kind = "telemetry"
                 /\ deviceData # <<>>
                 /\ \A i \in DOMAIN deviceData : deviceData[i].device_id # call.deviceId ) =>
                   deviceData' = deviceData ]_vars

\* C9: toggling pause/resume neither cancels nor re-arms the catalog timer and
\* issues no catalog fetch; the catalog timer stays armed throughout.
C9_PauseLeavesCatalogLoop ==
    [][ /\ isRefreshing' # isRefreshing =>
               /\ deviceInterval' = deviceInterval
               /\ pendingDevices' = pendingDevices
        /\ deviceInterval'.armed
        /\ deviceInterval'.delay = 30000 ]_vars

\* paused, the catalog timer armed and two catalog fetches in flight
C9_Witness ==
    /\ ~isRefreshing
    /\ deviceInterval.armed
    /\ BagCardinality(pendingDevices) = 2

\* C10: the rename step applied to a normalised list changes no device's kind
\* or name.
C10_NormaliseIdempotent ==
    [][ (step = 1 /\ step' = 2) =>
            /\ Len(devices') = Len(devices)
            /\ \A i \in 1..Len(devices) :
                   /\ devices'[i].device_type = devices[i].device_type
                   /\ devices'[i].name = devices[i].name ]_vars

\* a list the first pass renamed and retyped, normalised twice
C10_Witness ==
    /\ step = 2
    /\ Len(devices) > 0
    /\ devices[1].name # data.devices[1].name
    /\ devices[1].device_type # data.devices[1].device_type

\* C11: after normalisation no device of the catalog has a legacy bare kind
\* (mouse, keyboard, headset), whatever its name is.
C11_NoLegacyKind ==
    step = 1 =>
        \A i \in DOMAIN devices :
            devices[i].device_type \notin {"mouse", "keyboard", "headset"}

\* C12: after normalisation the display name of every device of the catalog
\* carries the word Sensor.
C12_EveryNameHasSensor ==
    step = 1 =>
        \A i \in DOMAIN devices :
            \E j \in DOMAIN devices[i].name : devices[i].name[j] = "Sensor"

\* C13: after a successful catalog fetch the catalog holds exactly the raw
\* devices of a recognised kind, in the order the server listed them.
C13_FilterKeepsOrder ==
    LET raw == data.devices
        keep == { i \in DOMAIN raw :
                    raw[i].device_type \in { "mouse", "keyboard", "headset",
                                             "mouse_sensor", "keyboard_sensor",
                                             "headset_sensor" } }
    IN  ~loading =>
            /\ Len(devices) = Cardinality(keep)
            /\ \A i \in keep :
                   devices[Cardinality({ j \in keep : j <= i })].client_id =
                       raw[i].client_id

\* the server listed a camera ahead of a recognised device: the catalog
\* holds the recognised device alone
C13_Witness ==
    /\ ~loading
    /\ Len(data.devices) = 2
    /\ data.devices[1].device_type = "camera"
    /\ Len(devices) = 1
    /\ devices[1].client_id = data.devices[2].client_id

\* a step in which a catalog request completes
CatalogCompleted ==
    \E noSelection \in BOOLEAN :
        CopiesIn(noSelection, pendingDevices') < CopiesIn(noSelection, pendingDevices)

\* C14: a catalog refresh that completes with a non-empty device list while
\* the selection is empty selects the first device of that list.
C14_EmptySelectionFilled ==
    [][ (CatalogCompleted /\ Falsy(selectedDevice) /\ Len(devices') > 0) =>
            selectedDevice' = devices'[1].client_id ]_vars

\* C15: the catalog never holds two devices with the same id.
C15_NoDuplicateIds ==
    \A i, j \in DOMAIN devices :
        devices[i].client_id = devices[j].client_id => i = j

\* the first failure of a catalog request: the error message is set
FirstCatalogFailure == error = Null /\ error' # Null

\* C16: a failed catalog fetch makes the catalog the fixed list of mouse-001
\* and keyboard-001; the selection becomes mouse-001 if it was empty and is
\* left as it was otherwise.
C16_FailureKeepsSelection ==
    [][ FirstCatalogFailure =>
            /\ Len(devices') = 2
            /\ devices'[1].client_id = "mouse-001"
            /\ devices'[1].device_type = "mouse_sensor"
            /\ devices'[2].client_id = "keyboard-001"
            /\ devices'[2].device_type = "keyboard_sensor"
            /\ selectedDevice' = IF Falsy(selectedDevice) THEN "mouse-001"
                                 ELSE selectedDevice ]_vars

\* C17: a failed telemetry fetch for a device replaces the telemetry buffer by
\* one sample with that device's id, under_attack false and attack_duration 0.
C17_TelemetryFallback ==
    [][ \A call \in Completed :
            (call.kind = "telemetry" /\ dataResult' = Failed) =>
                /\ Len(deviceData') = 1
                /\ deviceData'[1].device_id = call.deviceId
                /\ deviceData'[1].status # Undefined
                /\ deviceData'[1].status[1].under_attack = FALSE
                /\ deviceData'[1].status[1].attack_duration = << 0 >> ]_vars

\* the second cycle's telemetry call, for keyboard-001, failed
C17_Witness ==
    /\ dataResult = Failed
    /\ cycle = 2
    /\ Len(deviceData) = 1
    /\ deviceData[1].device_id = "keyboard-001"
    /\ selectedDevice = "keyboard-001"

\* C18: a failed alert fetch replaces the alert buffer by one alert of type
\* attack_detected and severity critical whose timestamp is the time of the
\* failure.
C18_AlertFallback ==
    [][ \A call \in Completed :
            (call.kind = "alerts" /\ alertsResult' = Failed) =>
                /\ Len(securityAlerts') = 1
                /\ securityAlerts'[1].event_type = "attack_detected"
                /\ securityAlerts'[1].severity = "critical"
                /\ securityAlerts'[1].timestamp = << now >> ]_vars

\* an alert call failed at 59 999 ms
C18_Witness ==
    /\ alertsResult = Failed
    /\ Len(securityAlerts) = 1
    /\ securityAlerts[1].severity = "critical"
    /\ securityAlerts[1].timestamp = << 59999 >>

\* a completed call that resolved
Succeeded(result) == result # NoResult /\ result[1].ok

\* C19: no failure stops polling: after a failed catalog, telemetry, alert or
\* heatmap fetch the timer of that loop is armed, and with timers that keep
\* firing and a server that does not fail for ever a later response of that
\* kind is applied.
C19_PollingSurvivesFailures ==
    /\ [](error # Null => deviceInterval.armed)
    /\ []((dataResult = Failed \/ alertsResult = Failed) => dataInterval.armed)
    /\ [](heatmapResult = Failed => heatmapInterval.armed)
    /\ (error # Null) ~> (Len(devices) = 1 /\ devices[1].client_id = "mouse-001")
    /\ (dataResult = Failed) ~> Succeeded(dataResult)
    /\ (alertsResult = Failed) ~> Succeeded(alertsResult)
    /\ (heatmapResult = Failed) ~> Succeeded(heatmapResult)

\* a catalog failure behind, the server's catalog applied since; the data and
\* heatmap loops armed, a renumbered cycle in flight after a failed alert call
C19_Witness ==
    /\ error # Null
    /\ Len(devices) = 1
    /\ deviceInterval.armed
    /\ dataInterval.armed
    /\ heatmapInterval.armed
    /\ alertsResult = Failed
    /\ Succeeded(dataResult)
    /\ Succeeded(heatmapResult)
    /\ cycle = 1
    /\ pendingData # {}
    /\ deviceData = <<>>

\* C20: a telemetry response with an empty data array, or without the data
\* field, empties the telemetry buffer; the latest sample and the latest
\* metrics are then 'no data' and the status has under_attack false.
C20_EmptyTelemetry ==
    [][ \A call \in Completed :
            ( /\ call.kind = "telemetry"
              /\ dataResult'[1].ok
              /\ Listed(dataResult'[1].body.data) = <<>> ) =>
                /\ deviceData' = <<>>
                /\ getMostRecentData(deviceData') = Undefined
                /\ getLatestMetrics(deviceData') = Undefined
                /\ getDeviceStatus(deviceData').under_attack = FALSE ]_vars

\* the second cycle's telemetry response was a body without the data field
C20_Witness ==
    /\ cycle = 2
    /\ dataResult # NoResult
    /\ dataResult[1].ok
    /\ dataResult[1].body.data = Undefined
    /\ deviceData = <<>>
    /\ \A call \in pendingData : call.kind # "telemetry"

\* C21: the colour of a value v: transparent at 0; blue with alpha v/20 for
\* 0 < v < 10; alpha 0.5 for 10 <= v < 30; alpha 0.6 for 30 <= v < 60; alpha
\* 0.7 for 60 <= v < 80; one solid red with alpha 0.8 for every v >= 80.
C21_ColourBands ==
    step = 1 =>
        LET v == data.value
            one == CellValueScale
        IN  /\ v = 0 => shown = [r |-> 0, g |-> 0, b |-> 0, a |-> 0]
            /\ (0 < v /\ v < 10 * one) =>
                   /\ shown.r = 0 /\ shown.g = 0 /\ shown.b = 255 * one
                   /\ shown.a = v
            /\ (10 * one <= v /\ v < 30 * one) =>
                   /\ shown.a * 2 = 20 * one
                   /\ shown.r = 0 /\ shown.b = 255 * one
                   /\ shown.g = 255 * one - 8 * (v - 10 * one)
            /\ (30 * one <= v /\ v < 60 * one) => shown.a * 10 = 6 * 20 * one
            /\ (60 * one <= v /\ v < 80 * one) => shown.a * 10 = 7 * 20 * one
            /\ v >= 80 * one =>
                   shown = [r |-> 255 * one, g |-> 0, b |-> 0, a |-> 16 * one]

\* the value 10 painted: the first colour of the green-ramp band
C21_Witness ==
    /\ step = 1
    /\ data.value = 10 * CellValueScale
    /\ shown.a = 10 * CellValueScale
    /\ shown.g = 255 * CellValueScale

\* two values of the band from 30 to 60 painted one after the other
InBand30To60 ==
    /\ step = 1
    /\ step' = 1
    /\ 30 * CellValueScale <= data.value
    /\ data'.value = data.value + 1
    /\ data'.value < 60 * CellValueScale

\* C22, as claimed: in the band 30 <= v < 60 red increases and green
\* decreases as v increases, alpha staying 0.6.
C22_RedUpGreenDown ==
    [][ InBand30To60 =>
            /\ shown'.r > shown.r
            /\ shown'.g < shown.g
            /\ shown'.a = shown.a ]_vars

\* C22, amended: in the band 30 <= v < 60 red increases and blue decreases
\* as v increases; green stays 255 and alpha stays 0.6.
C22_RedUpBlueDown ==
    [][ InBand30To60 =>
            /\ shown'.r > shown.r
            /\ shown'.b < shown.b
            /\ shown'.g = 255 * CellValueScale
            /\ shown'.g = shown.g
            /\ shown'.a = 12 * CellValueScale
            /\ shown'.a = shown.a ]_vars

\* the values 45 and 45 + 1/CellValueScale painted in turn
C22_Witness ==
    /\ step = 1
    /\ data.value = 45 * CellValueScale + 1
    /\ shown.r = (15 * CellValueScale + 1) * 8
    /\ shown.g = 255 * CellValueScale

\* a grid of the heatmap the component holds is well formed: no negative
\* cell, as many rows and columns as the resolution says
WellFormed(grid, resolution) ==
    /\ grid.cell >= 0
    /\ grid.height = resolution.height
    /\ grid.width = resolution.width

\* C23: every heatmap the component holds has two well-formed grids, and
\* its resolution is that of the heatmap held before it.
C23_ResolutionFixed ==
    [][ heatmapData' # Undefined =>
            /\ WellFormed(heatmapData'[1].position_heatmap, heatmapData'[1].resolution)
            /\ WellFormed(heatmapData'[1].click_heatmap, heatmapData'[1].resolution)
            /\ heatmapData # Undefined =>
                   heatmapData'[1].resolution = heatmapData[1].resolution ]_vars

\* C24: from one heatmap to the next no cell of the movement grid or of the
\* click grid gets smaller while the same device stays selected.
C24_CellsOnlyGrow ==
    [][ (heatmapData # Undefined /\ heatmapData' # Undefined
         /\ selectedDevice' = selectedDevice) =>
            /\ heatmapData'[1].position_heatmap.cell >= heatmapData[1].position_heatmap.cell
            /\ heatmapData'[1].click_heatmap.cell >= heatmapData[1].click_heatmap.cell ]_vars

\* a step in which a heatmap request of the mounted heatmap completes
HeatmapCompleted == pendingHeatmap \ pendingHeatmap' # {} /\ heatmapResult' # NoResult

\* C25: a failed heatmap fetch leaves a generated pair of grids 192 wide and
\* 108 high; after a completed fetch the heatmap is never the null of the
\* 'loading' state.
C25_HeatmapFallback ==
    [][ /\ (HeatmapCompleted /\ heatmapResult' = Failed) =>
               /\ heatmapData' # Undefined
               /\ heatmapData'[1].resolution = [width |-> 192, height |-> 108]
               /\ heatmapData'[1].position_heatmap.width = 192
               /\ heatmapData'[1].position_heatmap.height = 108
               /\ heatmapData'[1].click_heatmap.width = 192
               /\ heatmapData'[1].click_heatmap.height = 108
        /\ heatmapResult' # NoResult => heatmapData' # Undefined ]_vars

\* the selection or the pause flag changes in this step
SelectionOrPauseChanges ==
    selectedDevice' # selectedDevice \/ isRefreshing' # isRefreshing

\* C26: a step that pauses, deselects or changes the selection leaves no data
\* timer of the configuration before (none at all when paused or without a
\* selection) and takes no call out of flight; a call leaves the flight only
\* through its completion callback, whenever that is.
C26_CancelTimerKeepCalls ==
    [][ /\ SelectionOrPauseChanges =>
               /\ pendingData \subseteq pendingData'
               /\ dataInterval'.armed =>
                      /\ dataInterval'.deviceId = selectedDevice'
                      /\ isRefreshing' /\ ~Falsy(selectedDevice')
               /\ (~isRefreshing' \/ Falsy(selectedDevice')) => dataInterval' = NoInterval
        /\ \A call \in pendingData \ pendingData' :
               /\ ~SelectionOrPauseChanges
               /\ IF call.kind = "telemetry"
                  THEN dataResult' # NoResult /\ deviceData' = deviceDataAfter(dataResult'[1].body)
                  ELSE alertsResult' # NoResult
                       /\ securityAlerts' = securityAlertsAfter(alertsResult'[1].body) ]_vars

\* paused with no data timer, while the telemetry call of a cycle for a device
\* that is no longer selected is still in flight and its alert call has been
\* delivered
C26_Witness ==
    /\ ~isRefreshing
    /\ dataInterval = NoInterval
    /\ selectedDevice = "keyboard-001"
    /\ alertsResult # NoResult
    /\ dataResult = NoResult
    /\ \E call \in pendingData : call.kind = "telemetry" /\ call.deviceId = "mouse-001"
    /\ ~ \E call \in pendingData : call.kind = "alerts"

\* C28: each loop has one handle, and an armed handle is the one of the
\* current selection, cadence and pause flag; the calls a firing timer
\* issues are calls for the current selection.
C28_OneTimerPerLoop ==
    [][ /\ deviceInterval'.armed /\ deviceInterval'.deviceId = selectedDevice'
        /\ deviceInterval'.delay = DevicePollMs
        /\ dataInterval'.armed =>
               /\ dataInterval'.deviceId = selectedDevice'
               /\ dataInterval'.delay = refreshInterval' * 1000
               /\ isRefreshing' /\ ~Falsy(selectedDevice')
        /\ \A call \in pendingData' \ pendingData : call.deviceId = selectedDevice'
        /\ (BagCardinality(pendingDevices') > BagCardinality(pendingDevices)) =>
               BagIn(Falsy(selectedDevice'), pendingDevices') ]_vars

\* after the cadence has been changed to 1 s, with keyboard-001 selected: both
\* timers are armed and the latest data cycle, for keyboard-001, is in flight
C28_Witness ==
    /\ selectedDevice = "keyboard-001"
    /\ refreshInterval = 1
    /\ isRefreshing
    /\ dataInterval.armed /\ dataInterval.delay = 1000
    /\ deviceInterval.armed
    /\ cycle = MaxCycles
    /\ \E call \in pendingData : call.cycle = MaxCycles /\ call.deviceId = "keyboard-001"

\* C27: the duration shown with an 'under attack' verdict is the latest
\* sample's attack_duration, and 0 without a sample, without a status or
\* without a duration, also when only a recent critical alert makes the
\* verdict.
C27_AttackDuration ==
    step = 1 =>
        /\ shown.isAttacked = (shown.attack_duration # Undefined)
        /\ shown.attack_duration # Undefined =>
               shown.attack_duration[1] =
                   IF Len(deviceData) = 0
                      \/ deviceData[Len(deviceData)].status = Undefined
                      \/ deviceData[Len(deviceData)].status[1].attack_duration = Undefined
                   THEN 0
                   ELSE deviceData[Len(deviceData)].status[1].attack_duration[1]

\* 'under attack' owed to a critical alert alone: the latest of two samples
\* reports no attack and a duration of 3, the older one a duration of 7
C27_Witness ==
    /\ step = 1
    /\ shown.isAttacked
    /\ shown.attack_duration = Some(3)
    /\ Len(deviceData) = 2
    /\ deviceData[1].status = Some([under_attack |-> TRUE, attack_duration |-> Some(7)])
    /\ ~deviceData[2].status[1].under_attack

\* C29: the verdict and the metrics view are those of every other telemetry
\* buffer with the same last element, the alerts and the clock being equal.
C29_OnlyLastSample ==
    step = 1 =>
        \A other \in SeqsUpTo(VerdictSamples, MaxSamples) :
            (/\ Len(other) > 0 /\ Len(deviceData) > 0
             /\ other[Len(other)] = deviceData[Len(deviceData)]) =>
                /\ renderDevice(other, securityAlerts, now) = shown
                /\ getLatestMetrics(other) = getLatestMetrics(deviceData)

\* a buffer whose older sample reports an attack and whose latest sample does
\* not: the verdict is 'secure' and the statistics are the normal ones
C29_Witness ==
    /\ step = 1
    /\ Len(deviceData) = 2
    /\ deviceData[1].status = Some([under_attack |-> TRUE, attack_duration |-> Some(7)])
    /\ deviceData[2].status = Some([under_attack |-> FALSE, attack_duration |-> Some(0)])
    /\ deviceData[2].metrics # Undefined
    /\ ~shown.isAttacked
    /\ shown.metrics # Undefined
    /\ shown.metrics[1].statistics.packetLoss = "0.01%"

\* C30: whenever the network statistics are shown they follow the verdict:
\* their under-attack values with 'under attack', their normal values with
\* 'secure'.
C30_StatisticsFollowVerdict ==
    (step = 1 /\ shown.metrics # Undefined) =>
        shown.metrics[1].statistics =
            IF shown.isAttacked
            THEN [packetLoss |-> "4.2%", latency |-> "12ms",
                  signalStrength |-> "-65dBm", powerConsumption |-> "120mW"]
            ELSE [packetLoss |-> "0.01%", latency |-> "2ms",
                  signalStrength |-> "-42dBm", powerConsumption |-> "85mW"]

\* C31: a step that changes the selected device issues no catalog fetch and
\* leaves the catalog timer as it was; catalog fetches come from the timer
\* alone.
C31_CatalogFetchOnlyOnTimer ==
    [][ selectedDevice' # selectedDevice =>
            /\ \A noSelection \in BOOLEAN :
                   CopiesIn(noSelection, pendingDevices') <=
                       CopiesIn(noSelection, pendingDevices)
            /\ deviceInterval' = deviceInterval ]_vars

\* C32: while the last telemetry fetch and the last alert fetch have both
\* failed, in whichever order, the verdict is 'under attack' with duration 0
\* as long as the substitute alert is less than 60 000 ms old, and 'secure'
\* from then on; the substitute sample does not make it 'secure' earlier.
C32_BothFallbacks ==
    (dataResult = Failed /\ alertsResult = Failed) =>
        LET verdict == renderDeviceStatus(deviceData, securityAlerts, now)
            age == now - securityAlerts[1].timestamp[1]
        IN  /\ Len(securityAlerts) = 1 /\ Len(deviceData) = 1
            /\ ~deviceData[1].status[1].under_attack
            /\ verdict.isAttacked = (age < 60000)
            /\ verdict.isAttacked => verdict.attack_duration = Some(0)

\* both fetches of the second cycle have failed, the alert fetch 59 999 ms
\* ago: the verdict is still 'under attack'
C32_Witness ==
    /\ dataResult = Failed /\ alertsResult = Failed
    /\ cycle = 2
    /\ ~ \E call \in pendingData : call.cycle = 2
    /\ securityAlerts = << fallbackAlert(0) >>
    /\ now = 59999
    /\ renderDeviceStatus(deviceData, securityAlerts, now).isAttacked

\* C33: a completing catalog request, answered or failed, leaves a non-empty
\* selection as it is.
C33_LiveSelectionKept ==
    [][ (CatalogCompleted /\ ~Falsy(selectedDevice)) =>
            selectedDevice' = selectedDevice ]_vars

\* the cycles of which a call for the selected device is in flight
CyclesInFlight ==
    { call.cycle : call \in { c \in pendingData : c.deviceId = selectedDevice } }

\* C34: the calls in flight for the selected device belong to one cycle, so
\* that responses cannot be applied out of the order of their requests.
C34_OneCycleInFlight == Cardinality(CyclesInFlight) <= 1

\* C35: the colour of every cell value has its red, green and blue channels
\* within 0..255 and its alpha within 0..0.8.
C35_ValidColour ==
    step = 1 =>
        /\ \A channel \in { shown.r, shown.g, shown.b } :
               0 <= channel /\ channel <= 255 * CellValueScale
        /\ 0 <= shown.a /\ shown.a <= 16 * CellValueScale

\* the value one unit below 80, where green is at its lowest in its band
C35_Witness ==
    /\ step = 1
    /\ data.value = 80 * CellValueScale - 1
    /\ shown.g = 255 * CellValueScale - (20 * CellValueScale - 1) * 12
    /\ shown.g < 16 * CellValueScale

\* C36: every iteration of the generator computes a column in 0..191 and a
\* row in 0..107, and increments a click cell only where it increments the
\* movement cell.
C36_IndicesInGrid ==
    step = 1 =>
        /\ 0 <= shown.x /\ shown.x < 192
        /\ 0 <= shown.y /\ shown.y < 108
        /\ shown.clicked => shown.moved

\* C37: a new selection fetches its heatmap at once and arms the 5 s heatmap
\* timer for it; while a device is selected that timer is armed for it,
\* whatever the cadence and the pause flag are; and a heatmap response that
\* was requested for another device than the selected one does not change
\* the heatmap shown.
C37_HeatmapIndependent ==
    [][ /\ (selectedDevice' # selectedDevice /\ ~Falsy(selectedDevice')) =>
               selectedDevice' \in pendingHeatmap'
        /\ ~Falsy(selectedDevice') =>
               heatmapInterval' =
                   [armed |-> TRUE, deviceId |-> selectedDevice', delay |-> 5000]
        /\ \A deviceId \in pendingHeatmap \ pendingHeatmap' :
               (heatmapResult' # NoResult /\ deviceId # selectedDevice) =>
                   heatmapData' = heatmapData ]_vars

\* C38: in the earlier variant a failed telemetry or alert fetch leaves its
\* buffer as it was, a failed catalog fetch leaves the device list and the
\* selection as they were, and a catalog response that is applied while the
\* error is set clears the error.
C38_NoFallbackErrorCleared ==
    [][ /\ \A call \in Completed :
               /\ (call.kind = "telemetry" /\ dataResult' = Failed) =>
                      deviceData' = deviceData
               /\ (call.kind = "alerts" /\ alertsResult' = Failed) =>
                      securityAlerts' = securityAlerts
        /\ FirstCatalogFailure =>
               devices' = devices /\ selectedDevice' = selectedDevice
        /\ (CatalogCompleted /\ error # Null /\ devices' # devices) =>
               error' = Null ]_vars

====
